---- MODULE Spec2Model ----
(***************************************************************************)
(* Model of httpsify (src/httpsify.go): the URL normalizer fixUrl, the     *)
(* construction of the domain_backend registry in main, the request       *)
(* dispatcher handler() and the websocket tunnel NewWebsocketReverseProxy. *)
(* Go strings are sequences of one-character strings, so that the string  *)
(* operations of the source (TrimSpace, SplitN, TrimLeft, ...) are        *)
(* computed character by character.                                        *)
(***************************************************************************)
EXTENDS Integers, Sequences, FiniteSets, TLC

VARIABLES fin, fout, fpc,
          decls, domains, backend, zones, domain_backend, whitelisted, mpc,
          req0, r, pc, w, u, fwdCalls, wsCalls, outReq, dial, hj,
          backConn, clientConn, message, mr, c2b, b2c, backWritten,
          clientIn, clientPeer, clientSent, clientRead,
          backIn, backPeer, backSent, clientOut

fixVars == <<fin, fout, fpc>>
mainVars == <<decls, domains, backend, zones, domain_backend, whitelisted, mpc>>
reqVars == <<req0, r, w, u, fwdCalls, wsCalls, outReq, dial, hj>>
tunVars == <<backConn, clientConn, message, mr, c2b, b2c, backWritten,
             clientIn, clientPeer, clientSent, clientRead,
             backIn, backPeer, backSent, clientOut>>
srvVars == <<reqVars, pc, tunVars>>
vars == <<fixVars, mainVars, srvVars>>

(***************************************************************************)
(* Bounds                                                                  *)
(***************************************************************************)
MaxSlashes == 2
MaxZones == 3
MaxClientBytes == 1
MaxBackendBytes == 1

(***************************************************************************)
(* package strings                                                         *)
(***************************************************************************)
Space == {" "}

RECURSIVE TrimLeft(_, _)
TrimLeft(s, cutset) ==
    IF s # <<>> /\ Head(s) \in cutset THEN TrimLeft(Tail(s), cutset) ELSE s

RECURSIVE TrimRight(_, _)
TrimRight(s, cutset) ==
    IF s # <<>> /\ s[Len(s)] \in cutset
    THEN TrimRight(SubSeq(s, 1, Len(s) - 1), cutset)
    ELSE s

TrimSpace(s) == TrimRight(TrimLeft(s, Space), Space)

HasPrefix(s, p) == Len(s) >= Len(p) /\ SubSeq(s, 1, Len(p)) = p

HasSuffix(s, p) == Len(s) >= Len(p) /\ SubSeq(s, Len(s) - Len(p) + 1, Len(s)) = p

TrimPrefix(s, p) == IF HasPrefix(s, p) THEN SubSeq(s, Len(p) + 1, Len(s)) ELSE s

RECURSIVE IndexFrom(_, _, _)
IndexFrom(s, sub, i) ==
    IF i + Len(sub) - 1 > Len(s) THEN -1
    ELSE IF SubSeq(s, i, i + Len(sub) - 1) = sub THEN i - 1
    ELSE IndexFrom(s, sub, i + 1)

\* 0-based index of the first occurrence of sub in s, -1 when there is none
Index(s, sub) == IndexFrom(s, sub, 1)

Contains(s, sub) == Index(s, sub) >= 0

\* strings.SplitN(s, sep, 2)
SplitN2(s, sep) ==
    LET i == Index(s, sep)
    IN  IF i < 0 THEN <<s>>
        ELSE <<SubSeq(s, 1, i), SubSeq(s, i + Len(sep) + 1, Len(s))>>

RECURSIVE Split(_, _)
Split(s, sep) ==
    LET i == Index(s, sep)
    IN  IF i < 0 THEN <<s>>
        ELSE <<SubSeq(s, 1, i)>> \o Split(SubSeq(s, i + Len(sep) + 1, Len(s)), sep)

LowerOf ==
    [c \in {"W", "E", "B", "S", "O", "C", "K", "T"} |->
        CASE c = "W" -> "w" [] c = "E" -> "e" [] c = "B" -> "b" [] c = "S" -> "s"
          [] c = "O" -> "o" [] c = "C" -> "c" [] c = "K" -> "k" [] c = "T" -> "t"]

ToLower(s) == [i \in 1..Len(s) |-> IF s[i] \in DOMAIN LowerOf THEN LowerOf[s[i]] ELSE s[i]]

(***************************************************************************)
(* String constants of the source                                          *)
(***************************************************************************)
S_https == <<"h", "t", "t", "p", "s", ":", "/", "/">>
S_http == <<"h", "t", "t", "p", ":", "/", "/">>
S_ws == <<"w", "s", ":", "/", "/">>
S_localhost == <<"l", "o", "c", "a", "l", "h", "o", "s", "t">>
S_colon == <<":">>
S_slash == <<"/">>
S_arrow == <<"-", ">">>
S_comma == <<",">>

(***************************************************************************)
(* fixUrl                                                                  *)
(***************************************************************************)
fixUrl(u0) ==
    LET u1 == TrimPrefix(TrimSpace(u0), S_https)
        u2 == IF Index(u1, S_colon) = 0 THEN S_localhost \o u1 ELSE u1
        u3 == IF ~HasPrefix(u2, S_ws) /\ ~HasPrefix(u2, S_http) THEN S_http \o u2 ELSE u2
    IN  TrimRight(u3, {"/"})

\* Inputs of fixUrl: an optional scheme, a host[:port] (or nothing), trailing
\* slashes and surrounding blanks, as an operator may type them.
RECURSIVE Slashes(_)
Slashes(n) == IF n = 0 THEN <<>> ELSE S_slash \o Slashes(n - 1)

FixPrefixes == {<<>>, <<" ">>, S_https, S_http, S_ws}
FixCores == {<<>>, <<"a">>, <<":", "8">>, <<"a", ":", "8">>, <<"a", "/", "b">>}
FixTails == {<<>>, <<" ">>}
FixInputs ==
    {p \o c \o Slashes(n) \o t :
        p \in FixPrefixes, c \in FixCores, n \in 0..MaxSlashes, t \in FixTails}

MainIdle ==
    /\ decls = <<>> /\ domains = <<>> /\ backend = <<>> /\ zones = <<>>
    /\ domain_backend = <<>> /\ whitelisted = <<>> /\ mpc = "off"

FixIdle == fin = <<>> /\ fout = <<>> /\ fpc = "off"

EmptyMap == [x \in {} |-> <<>>]

NoReq ==
    [Host |-> <<>>, Header |-> EmptyMap, RemoteAddr |-> <<>>, URI |-> <<>>,
     Method |-> <<>>, Proto |-> <<>>, Body |-> <<>>]

NoOut == [Host |-> <<>>, URL |-> <<>>, Header |-> EmptyMap]

NoResp == [status |-> 0, body |-> <<>>]

ReqIdle ==
    /\ req0 = [name |-> <<>>, ip |-> <<>>, header |-> EmptyMap, uri |-> <<>>] /\ r = NoReq
    /\ w = NoResp /\ u = <<>> /\ fwdCalls = 0 /\ wsCalls = 0
    /\ outReq = NoOut /\ dial = "none" /\ hj = "none"

TunIdle ==
    /\ backConn = "none" /\ clientConn = "http" /\ message = <<>> /\ mr = 0
    /\ c2b = "none" /\ b2c = "none" /\ backWritten = <<>>
    /\ clientIn = <<>> /\ clientPeer = "open" /\ clientSent = 0 /\ clientRead = <<>>
    /\ backIn = <<>> /\ backPeer = "none" /\ backSent = 0 /\ clientOut = <<>>

SrvIdle == ReqIdle /\ TunIdle /\ pc = "off"

InitFix ==
    /\ fin \in FixInputs
    /\ fout = <<>>
    /\ fpc = "call"
    /\ MainIdle
    /\ SrvIdle

\* one call of fixUrl on the input, then one more on its own result
FixCall ==
    /\ fpc = "call"
    /\ fout' = <<fixUrl(fin)>>
    /\ fpc' = "again"
    /\ UNCHANGED <<fin, mainVars, srvVars>>

FixAgain ==
    /\ fpc = "again"
    /\ fout' = Append(fout, fixUrl(fout[1]))
    /\ fpc' = "done"
    /\ UNCHANGED <<fin, mainVars, srvVars>>

NextFix == FixCall \/ FixAgain

SpecFix == InitFix /\ [][NextFix]_vars

\* C5: the normalizer is idempotent and its result begins with "http://" or
\* "ws://" and does not end with "/".
C5_FixUrlIdempotentCanonical ==
    fpc = "done" =>
        /\ fout[2] = fout[1]
        /\ (HasPrefix(fout[1], S_http) \/ HasPrefix(fout[1], S_ws))
        /\ ~HasSuffix(fout[1], S_slash)

(***************************************************************************)
(* main: construction of domain_backend and whitelisted                    *)
(***************************************************************************)
D_a == <<"a", ".", "c", "o", "m">>
D_b == <<"b", ".", "c", "o", "m">>
T_9000 == <<":", "9", "0", "0", "0">>
T_80 == <<":", "8", "0">>
T_h7s == <<"h", ":", "7", "/">>
T_wsh == <<"w", "s", ":", "/", "/", "h">>

\* A zone declaration as the operator means it: a domain and, when has is
\* TRUE, the target written after "->" (which may be the empty string).
ZoneDecls ==
    {[domain |-> d, has |-> FALSE, target |-> <<>>] : d \in {D_a, D_b}}
    \cup {[domain |-> d, has |-> TRUE, target |-> t] :
            d \in {D_a, D_b}, t \in {T_9000, T_h7s, <<>>}}

DeclLists == UNION {[1..n -> ZoneDecls] : n \in 0..MaxZones}

Defaults == {T_80, T_wsh}

ZoneText(z) == IF z.has THEN z.domain \o S_arrow \o z.target ELSE z.domain

\* the value of the -domains flag for a list of declarations
RECURSIVE JoinZones(_)
JoinZones(zs) ==
    IF zs = <<>> THEN <<>>
    ELSE IF Len(zs) = 1 THEN ZoneText(zs[1])
    ELSE ZoneText(zs[1]) \o S_comma \o JoinZones(Tail(zs))


\* faulty variant of MapSet: an existing key keeps its first value
MapSet_KeepFirst(m, k, v) ==
    [x \in DOMAIN m \cup {k} |-> IF x \in DOMAIN m THEN m[x] ELSE v]

\* m[k] = v
MapSet(m, k, v) == [x \in DOMAIN m \cup {k} |-> IF x = k THEN v ELSE m[x]]

InitMain ==
    /\ decls \in DeclLists
    /\ domains = JoinZones(decls)
    /\ backend \in Defaults
    /\ zones = <<>>
    /\ domain_backend = EmptyMap
    /\ whitelisted = <<>>
    /\ mpc = "start"
    /\ FixIdle
    /\ SrvIdle

\* if *domains == "" { flag.Usage(); return }
MainUsage ==
    /\ mpc = "start"
    /\ domains = <<>>
    /\ mpc' = "exit"
    /\ UNCHANGED <<decls, domains, backend, zones, domain_backend, whitelisted, fixVars, srvVars>>

\* range strings.Split(*domains, ",")
MainSplit ==
    /\ mpc = "start"
    /\ domains # <<>>
    /\ zones' = Split(domains, S_comma)
    /\ mpc' = "loop"
    /\ UNCHANGED <<decls, domains, backend, domain_backend, whitelisted, fixVars, srvVars>>

\* the parts of one zone: SplitN on "->", the default backend when there is
\* no target, fixUrl on the target
ZoneParts(zone, dflt) ==
    LET parts0 == SplitN2(zone, S_arrow)
        parts1 == IF Len(parts0) < 2 THEN Append(parts0, dflt) ELSE parts0
    IN  <<parts1[1], fixUrl(parts1[2])>>

\* one iteration of the loop over the zones
MainZone ==
    /\ mpc = "loop"
    /\ zones # <<>>
    /\ LET parts == ZoneParts(Head(zones), backend)
       IN  /\ domain_backend' = MapSet(domain_backend, parts[1], parts[2])
           /\ whitelisted' = Append(whitelisted, parts[1])
    /\ zones' = Tail(zones)
    /\ mpc' = IF Tail(zones) = <<>> THEN "serve" ELSE "loop"
    /\ UNCHANGED <<decls, domains, backend, fixVars, srvVars>>

NextMain == MainUsage \/ MainSplit \/ MainZone

SpecMain == InitMain /\ [][NextMain]_vars

Range(f) == {f[x] : x \in DOMAIN f}

\* the target the operator declared last for domain d: the written target, or
\* the default backend when the declaration has no "->target"
LastDeclared(d) ==
    LET I == {i \in 1..Len(decls) : decls[i].domain = d}
        last == CHOOSE i \in I : \A j \in I : j <= i
    IN  IF decls[last].has THEN decls[last].target ELSE backend

\* C6: after construction every declared domain maps to the normalized target
\* of its last declaration (the normalized default when it has none), and the
\* set of allow-list entries equals the set of registry keys; for
\* "a.com,b.com->:9000" with default ":80" this is a.com -> http://localhost:80
\* and b.com -> http://localhost:9000.
C6_RegistryLastWriteWins ==
    mpc = "serve" =>
        /\ DOMAIN domain_backend = {decls[i].domain : i \in 1..Len(decls)}
        /\ \A d \in DOMAIN domain_backend : domain_backend[d] = fixUrl(LastDeclared(d))
        /\ Range(whitelisted) = DOMAIN domain_backend
        /\ (backend = T_80 /\ domains = D_a \o S_comma \o D_b \o S_arrow \o T_9000) =>
              /\ domain_backend[D_a] = S_http \o S_localhost \o T_80
              /\ domain_backend[D_b] = S_http \o S_localhost \o T_9000
              /\ Range(whitelisted) = {D_a, D_b}

\* a domain declared twice with different targets has been constructed
C6_Witness ==
    /\ mpc = "serve"
    /\ \E i, j \in 1..Len(decls) :
          /\ i < j /\ decls[i].domain = decls[j].domain
          /\ fixUrl(IF decls[i].has THEN decls[i].target ELSE backend)
               # domain_backend[decls[j].domain]
    /\ \E i \in 1..Len(decls) : ~decls[i].has

(***************************************************************************)
(* The registry the server runs with: the result of main's loop            *)
(***************************************************************************)
RECURSIVE BuildRegistry(_, _, _, _)
BuildRegistry(zs, dflt, m, wl) ==
    IF zs = <<>> THEN <<m, wl>>
    ELSE LET parts == ZoneParts(Head(zs), dflt)
         IN  BuildRegistry(Tail(zs), dflt, MapSet(m, parts[1], parts[2]), Append(wl, parts[1]))

T_h7ss == <<"h", ":", "7", "/", "/">>

\* -domains "a.com,b.com->h:7//" with the default -backend ":80"
ServeDecls ==
    <<[domain |-> D_a, has |-> FALSE, target |-> <<>>],
      [domain |-> D_b, has |-> TRUE, target |-> T_h7ss]>>

(***************************************************************************)
(* Requests                                                                *)
(***************************************************************************)
S_websocket == <<"w", "e", "b", "s", "o", "c", "k", "e", "t">>
S_notfound == <<":", " ", "n", "o", "t", " ", "f", "o", "u", "n", "d">>
S_nohijack == <<"w", "e", "b", "s", "e", "r", "v", "e", "r", " ", "d", "o", "e", "s", "n", "'", "t", " ", "s", "u", "p", "p", "o", "r", "t", " ", "h", "i", "j", "a", "c", "k", "i", "n", "g">>
S_sp == <<" ">>
S_nl == <<"\n">>
S_hostHdr == <<"H", "o", "s", "t", ":", " ">>
S_colonsp == <<":", " ">>
S_schemesep == <<":", "/", "/">>
S_httpsVal == <<"h", "t", "t", "p", "s">>
K_Upgrade == <<"U", "p", "g", "r", "a", "d", "e">>
K_XFP == <<"X", "-", "F", "o", "r", "w", "a", "r", "d", "e", "d", "-", "P", "r", "o", "t", "o">>
K_XFF == <<"X", "-", "F", "o", "r", "w", "a", "r", "d", "e", "d", "-", "F", "o", "r">>
E_dial == <<"d", "i", "a", "l", " ", "t", "c", "p", ":", " ", "r", "e", "f", "u", "s", "e", "d">>
E_hijack == <<"h", "i", "j", "a", "c", "k", " ", "f", "a", "i", "l", "e", "d">>

N_evil == <<"e", "v", "i", "l", ".", "t", "e", "s", "t">>
N_v6 == <<"[", ":", ":", "1", "]">>
P_443 == <<"4", "4", "3">>
IP_v4 == <<"1", ".", "2", ".", "3", ".", "4">>
IP_v6 == <<":", ":", "1">>
P_5 == <<"5">>
V_xff1 == <<"9", ".", "9", ".", "9", ".", "9">>
V_xff2 == <<"8", ".", "8", ".", "8", ".", "8">>
V_http == <<"h", "t", "t", "p">>
U_foo == <<"/", "f", "o", "o", "?", "x", "=", "1">>
U_dslash == <<"/", "/", "f", "o", "o">>
M_GET == <<"G", "E", "T">>
V_WebSocket == <<"W", "e", "b", "S", "o", "c", "k", "e", "t">>
V_WEBSOCKET == <<"W", "E", "B", "S", "O", "C", "K", "E", "T">>
V_h2c == <<"h", "2", "c">>
Pr_11 == <<"H", "T", "T", "P", "/", "1", ".", "1">>

HostNames == {D_a, D_b, N_evil, N_v6}
HostPorts == {<<>>, P_443}
UpgradeInputs == {<<>>, <<S_websocket>>, <<V_WebSocket>>, <<V_WEBSOCKET>>, <<V_h2c>>}

\* the forwarding headers a request arrives with (none: header absent) and the
\* address of the client that sent it
ForwardCases ==
    { [xff |-> <<>>, xfp |-> <<>>, ip |-> IP_v6],
      [xff |-> <<V_xff1, V_xff2>>, xfp |-> <<V_http>>, ip |-> IP_v4] }

\* request URI and body
PayloadCases ==
    { [uri |-> U_foo, body |-> <<>>],
      [uri |-> U_dslash, body |-> <<"B">>] }

\* the Host field a client sends for a host name and an optional port
HostField(name, port) == IF port = <<>> THEN name ELSE name \o S_colon \o port

\* r.RemoteAddr as the server sets it: "ip:port", an IPv6 address in brackets
RemoteAddrOf(ip, port) ==
    IF Contains(ip, S_colon) THEN <<"[">> \o ip \o <<"]">> \o S_colon \o port
    ELSE ip \o S_colon \o port

\* a header map from the values received for each key (none: key absent)
HeaderOf(up, xff, xfp) ==
    LET h1 == IF up = <<>> THEN EmptyMap ELSE MapSet(EmptyMap, K_Upgrade, up)
        h2 == IF xff = <<>> THEN h1 ELSE MapSet(h1, K_XFF, xff)
    IN  IF xfp = <<>> THEN h2 ELSE MapSet(h2, K_XFP, xfp)

\* r.Header[k]
HeaderVals(h, k) == IF k \in DOMAIN h THEN h[k] ELSE <<>>

\* r.Header.Get(k)
HeaderGet(h, k) == IF HeaderVals(h, k) = <<>> THEN <<>> ELSE HeaderVals(h, k)[1]

Init ==
    /\ decls = ServeDecls
    /\ domains = JoinZones(decls)
    /\ backend = T_80
    /\ zones = <<>>
    /\ domain_backend = BuildRegistry(Split(domains, S_comma), backend, EmptyMap, <<>>)[1]
    /\ whitelisted = BuildRegistry(Split(domains, S_comma), backend, EmptyMap, <<>>)[2]
    /\ mpc = "serve"
    /\ FixIdle
    /\ ReqIdle
    /\ TunIdle
    /\ pc = "idle"

\* the server hands one parsed request to the handler; req0 remembers what
\* the client meant: the host name, its own IP, the headers and the URI it sent
Receive ==
    /\ pc = "idle"
    /\ \E name \in HostNames, port \in HostPorts, up \in UpgradeInputs,
          f \in ForwardCases, p \in PayloadCases :
          LET req == [Host |-> HostField(name, port),
                      Header |-> HeaderOf(up, f.xff, f.xfp),
                      RemoteAddr |-> RemoteAddrOf(f.ip, P_5),
                      URI |-> p.uri, Method |-> M_GET, Proto |-> Pr_11, Body |-> p.body]
          IN  /\ r' = req
              /\ req0' = [name |-> name, ip |-> f.ip, header |-> req.Header, uri |-> p.uri]
    /\ pc' = "handler"
    /\ UNCHANGED <<w, u, fwdCalls, wsCalls, outReq, dial, hj, tunVars, fixVars, mainVars>>

(***************************************************************************)
(* handler                                                                 *)
(***************************************************************************)
\* strings.SplitN(r.Host, ":", 2)[0]
StripPort(host) == SplitN2(host, S_colon)[1]

\* http.Error(w, msg, code)
HttpError(msg, code) == [status |-> code, body |-> msg \o S_nl]

\* the two forwarding headers set by the handler
SetForwarded(h, remoteAddr) ==
    LET h1 == MapSet(h, K_XFP, <<S_httpsVal>>)
    IN  MapSet(h1, K_XFF, Append(HeaderVals(h, K_XFF), SplitN2(remoteAddr, S_colon)[1]))


\* faulty variant of JoinUrl: the leading slashes of the request URI are kept
JoinUrl_NoTrim(target, uri) == target \o S_slash \o uri

\* domain_backend[r.Host] + "/" + strings.TrimLeft(r.URL.RequestURI(), "/")
JoinUrl(target, uri) == target \o S_slash \o TrimLeft(uri, {"/"})


\* faulty variant of IsWebsocket: the comparison is case-sensitive
IsWebsocket_CaseSensitive(h) == HeaderGet(h, K_Upgrade) = S_websocket

\* strings.ToLower(r.Header.Get("Upgrade")) == "websocket"
IsWebsocket(h) == ToLower(HeaderGet(h, K_Upgrade)) = S_websocket

\* url.Parse(...).Host: what follows "://" up to the next "/"
UrlHost(url) ==
    LET i == Index(url, S_schemesep)
        rest == IF i < 0 THEN <<>> ELSE SubSeq(url, i + 4, Len(url))
    IN  SplitN2(rest, S_slash)[1]

\* url.Parse(...).RequestURI(): the path and query after the host
UrlRequestURI(url) ==
    LET i == Index(url, S_schemesep)
        rest == IF i < 0 THEN <<>> ELSE SubSeq(url, i + 4, Len(url))
        j == Index(rest, S_slash)
    IN  IF j < 0 THEN S_slash ELSE SubSeq(rest, j + 1, Len(rest))

HandlerNotFound ==
    /\ pc = "handler"
    /\ StripPort(r.Host) \notin DOMAIN domain_backend
    /\ r' = [r EXCEPT !.Host = StripPort(r.Host)]
    /\ w' = HttpError(StripPort(r.Host) \o S_notfound, 501)
    /\ pc' = "done"
    /\ UNCHANGED <<req0, u, fwdCalls, wsCalls, outReq, dial, hj, tunVars, fixVars, mainVars>>

\* the request after lines 111, 116 and 117
Rewritten(req) ==
    [req EXCEPT !.Host = StripPort(req.Host),
                !.Header = SetForwarded(req.Header, req.RemoteAddr)]

HandlerTunnel ==
    /\ pc = "handler"
    /\ StripPort(r.Host) \in DOMAIN domain_backend
    /\ IsWebsocket(Rewritten(r).Header)
    /\ r' = Rewritten(r)
    /\ u' = JoinUrl(domain_backend[StripPort(r.Host)], r.URI)
    /\ wsCalls' = wsCalls + 1
    /\ pc' = "dial"
    /\ UNCHANGED <<req0, w, fwdCalls, outReq, dial, hj, tunVars, fixVars, mainVars>>

HandlerForward ==
    /\ pc = "handler"
    /\ StripPort(r.Host) \in DOMAIN domain_backend
    /\ ~IsWebsocket(Rewritten(r).Header)
    /\ r' = Rewritten(r)
    /\ u' = JoinUrl(domain_backend[StripPort(r.Host)], r.URI)
    /\ fwdCalls' = fwdCalls + 1
    /\ pc' = "proxy"
    /\ UNCHANGED <<req0, w, wsCalls, outReq, dial, hj, tunVars, fixVars, mainVars>>

\* proxy.ServeHTTP with the overriding Director: the outbound request is r
\* with r.Host and u, as the handler hands it to the reverse proxy; the
\* backend answers (its response is streamed), or is unreachable (502)
ProxyServe ==
    /\ pc = "proxy"
    /\ outReq' = [Host |-> r.Host, URL |-> u, Header |-> r.Header]
    /\ \E reachable \in BOOLEAN :
          w' = IF reachable THEN [status |-> 200, body |-> <<>>]
               ELSE [status |-> 502, body |-> <<>>]
    /\ pc' = "done"
    /\ UNCHANGED <<req0, r, u, fwdCalls, wsCalls, dial, hj, tunVars, fixVars, mainVars>>

(***************************************************************************)
(* NewWebsocketReverseProxy                                                *)
(***************************************************************************)

\* faulty variant of WsDialFail: the return after http.Error is missing
WsDialFail_NoReturn ==
    /\ pc = "dial"
    /\ dial' = "failed"
    /\ w' = HttpError(E_dial, 500)
    /\ pc' = "hijack"
    /\ UNCHANGED <<req0, r, u, fwdCalls, wsCalls, outReq, hj, tunVars, fixVars, mainVars>>

WsDialFail ==
    /\ pc = "dial"
    /\ dial' = "failed"
    /\ w' = HttpError(E_dial, 500)
    /\ pc' = "done"
    /\ UNCHANGED <<req0, r, u, fwdCalls, wsCalls, outReq, hj, tunVars, fixVars, mainVars>>

\* net.Dial("tcp", u.Host) needs a host:port address
WsDialOk ==
    /\ pc = "dial"
    /\ Contains(UrlHost(u), S_colon)
    /\ dial' = "ok"
    /\ backConn' = "open"
    /\ backPeer' = "open"
    /\ pc' = "hijack"
    /\ UNCHANGED <<req0, r, w, u, fwdCalls, wsCalls, outReq, hj, clientConn, message,
                   mr, c2b, b2c, backWritten, clientIn, clientPeer, clientSent,
                   clientRead, backIn, backSent, clientOut, fixVars, mainVars>>

\* w.(http.Hijacker) fails; the deferred backConn.Close() runs
WsNotHijacker ==
    /\ pc = "hijack"
    /\ hj' = "unsupported"
    /\ w' = HttpError(S_nohijack, 500)
    /\ backConn' = "closed"
    /\ pc' = "done"
    /\ UNCHANGED <<req0, r, u, fwdCalls, wsCalls, outReq, dial, clientConn, message,
                   mr, c2b, b2c, backWritten, clientIn, clientPeer, clientSent,
                   clientRead, backIn, backPeer, backSent, clientOut, fixVars, mainVars>>


\* faulty variant of WsHijackErr: backConn.Close() is deferred only after the hijack
WsHijackErr_Leak ==
    /\ pc = "hijack"
    /\ hj' = "error"
    /\ w' = HttpError(E_hijack, 500)
    /\ pc' = "done"
    /\ UNCHANGED <<req0, r, u, fwdCalls, wsCalls, outReq, dial, tunVars, fixVars, mainVars>>

\* hj.Hijack() returns an error; the deferred backConn.Close() runs
WsHijackErr ==
    /\ pc = "hijack"
    /\ hj' = "error"
    /\ w' = HttpError(E_hijack, 500)
    /\ backConn' = "closed"
    /\ pc' = "done"
    /\ UNCHANGED <<req0, r, u, fwdCalls, wsCalls, outReq, dial, clientConn, message,
                   mr, c2b, b2c, backWritten, clientIn, clientPeer, clientSent,
                   clientRead, backIn, backPeer, backSent, clientOut, fixVars, mainVars>>

\* the orders in which range r.Header may visit the keys
KeyOrders(h) ==
    {o \in [1..Cardinality(DOMAIN h) -> DOMAIN h] :
        \A i, j \in DOMAIN o : i # j => o[i] # o[j]}


\* faulty variant of ValLines: only the first value of a key is written
ValLines_FirstOnly(k, vals) ==
    IF vals = <<>> THEN <<>> ELSE k \o S_colonsp \o Head(vals) \o S_nl

RECURSIVE ValLines(_, _)
ValLines(k, vals) ==
    IF vals = <<>> THEN <<>>
    ELSE k \o S_colonsp \o Head(vals) \o S_nl \o ValLines(k, Tail(vals))

RECURSIVE HeaderLines(_, _)
HeaderLines(h, order) ==
    IF order = <<>> THEN <<>>
    ELSE ValLines(Head(order), h[Head(order)]) \o HeaderLines(h, Tail(order))

\* the replayed request block
BuildMessage(req, order) ==
    req.Method \o S_sp \o req.URI \o S_sp \o req.Proto \o S_nl
    \o S_hostHdr \o req.Host \o S_nl
    \o HeaderLines(req.Header, order)
    \o S_nl

\* Hijack succeeds: the message is built, the copy goroutine is started and
\* the handler enters io.Copy(clientConn, backConn)
WsHijackOk ==
    /\ pc = "hijack"
    /\ hj' = "ok"
    /\ clientConn' = "hijacked"
    /\ \E order \in KeyOrders(r.Header) : message' = BuildMessage(r, order)
    /\ mr' = 1
    /\ c2b' = "running"
    /\ b2c' = "running"
    /\ pc' = "splice"
    /\ UNCHANGED <<req0, r, w, u, fwdCalls, wsCalls, outReq, dial, backConn,
                   backWritten, clientIn, clientPeer, clientSent, clientRead,
                   backIn, backPeer, backSent, clientOut, fixVars, mainVars>>

\* a write to backConn succeeds while it is open and the backend is there
BackWritable == backConn = "open" /\ backPeer # "gone"

\* one Read of the MultiReader and the Write of what it returned, in the
\* goroutine's io.Copy; a failed Write ends the copy
CopyToBack(chunk, nextMr) ==
    IF BackWritable
    THEN /\ backWritten' = backWritten \o chunk
         /\ mr' = nextMr
         /\ c2b' = c2b
    ELSE /\ c2b' = "done"
         /\ UNCHANGED <<backWritten, mr>>

\* first reader: strings.NewReader(message)
C2BMessage ==
    /\ c2b = "running"
    /\ mr = 1
    /\ CopyToBack(message, 2)
    /\ UNCHANGED <<reqVars, pc, backConn, clientConn, message, b2c, clientIn, clientPeer,
                   clientSent, clientRead, backIn, backPeer, backSent, clientOut,
                   fixVars, mainVars>>

\* second reader: r.Body (an empty body is only its end-of-stream)
C2BBody ==
    /\ c2b = "running"
    /\ mr = 2
    /\ IF r.Body = <<>>
       THEN mr' = 3 /\ UNCHANGED <<backWritten, c2b>>
       ELSE CopyToBack(r.Body, 3)
    /\ UNCHANGED <<reqVars, pc, backConn, clientConn, message, b2c, clientIn, clientPeer,
                   clientSent, clientRead, backIn, backPeer, backSent, clientOut,
                   fixVars, mainVars>>

\* third reader: clientConn, one received byte at a time
C2BClient ==
    /\ c2b = "running"
    /\ mr = 3
    /\ clientConn = "hijacked"
    /\ clientIn # <<>>
    /\ clientRead' = Append(clientRead, Head(clientIn))
    /\ clientIn' = Tail(clientIn)
    /\ CopyToBack(<<Head(clientIn)>>, 3)
    /\ UNCHANGED <<reqVars, pc, backConn, clientConn, message, b2c, clientPeer,
                   clientSent, backIn, backPeer, backSent, clientOut,
                   fixVars, mainVars>>

\* clientConn reaches end-of-stream or fails (closed by the handler's return,
\* or by the client): the goroutine's io.Copy returns
C2BEnd ==
    /\ c2b = "running"
    /\ mr = 3
    /\ \/ clientConn = "closed"
       \/ clientIn = <<>> /\ clientPeer \in {"eof", "gone"}
    /\ c2b' = "done"
    /\ UNCHANGED <<reqVars, pc, backConn, clientConn, message, mr, b2c, backWritten,
                   clientIn, clientPeer, clientSent, clientRead, backIn, backPeer,
                   backSent, clientOut, fixVars, mainVars>>


\* faulty variant of HandlerReturn: the deferred Close calls are missing
HandlerReturn_NoClose ==
    /\ b2c' = "done"
    /\ pc' = "done"
    /\ UNCHANGED <<clientConn, backConn>>

\* io.Copy(clientConn, backConn) returns, the handler returns and its defers
\* close clientConn and backConn
HandlerReturn ==
    /\ b2c' = "done"
    /\ clientConn' = "closed"
    /\ backConn' = "closed"
    /\ pc' = "done"

\* the handler's io.Copy moves one byte from backConn to clientConn
B2CData ==
    /\ pc = "splice"
    /\ backIn # <<>>
    /\ clientPeer # "gone"
    /\ backIn' = Tail(backIn)
    /\ clientOut' = Append(clientOut, Head(backIn))
    /\ UNCHANGED <<reqVars, pc, backConn, clientConn, message, mr, c2b, b2c, backWritten,
                   clientIn, clientPeer, clientSent, clientRead, backPeer, backSent,
                   fixVars, mainVars>>

\* the write to clientConn fails
B2CWriteErr ==
    /\ pc = "splice"
    /\ backIn # <<>>
    /\ clientPeer = "gone"
    /\ backIn' = Tail(backIn)
    /\ HandlerReturn
    /\ UNCHANGED <<reqVars, message, mr, c2b, backWritten, clientIn, clientPeer,
                   clientSent, clientRead, backPeer, backSent, clientOut,
                   fixVars, mainVars>>

\* backConn reaches end-of-stream or fails
B2CEnd ==
    /\ pc = "splice"
    /\ backIn = <<>>
    /\ backPeer \in {"eof", "gone"}
    /\ HandlerReturn
    /\ UNCHANGED <<reqVars, message, mr, c2b, backWritten, clientIn, clientPeer,
                   clientSent, clientRead, backIn, backPeer, backSent, clientOut,
                   fixVars, mainVars>>

(***************************************************************************)
(* The two peers of a tunnel                                               *)
(***************************************************************************)
ClientBytes == <<"p", "q", "r", "s">>
BackendBytes == <<"P", "Q", "R", "S">>

ClientSend ==
    /\ pc = "splice"
    /\ clientPeer = "open"
    /\ clientSent < MaxClientBytes
    /\ clientIn' = Append(clientIn, ClientBytes[clientSent + 1])
    /\ clientSent' = clientSent + 1
    /\ UNCHANGED <<reqVars, pc, backConn, clientConn, message, mr, c2b, b2c, backWritten,
                   clientPeer, clientRead, backIn, backPeer, backSent, clientOut,
                   fixVars, mainVars>>

\* the client shuts down its sending side (eof) or drops the connection (gone)
ClientClose ==
    /\ pc = "splice"
    /\ clientPeer = "open"
    /\ clientPeer' \in {"eof", "gone"}
    /\ UNCHANGED <<reqVars, pc, backConn, clientConn, message, mr, c2b, b2c, backWritten,
                   clientIn, clientSent, clientRead, backIn, backPeer, backSent, clientOut,
                   fixVars, mainVars>>

BackendSend ==
    /\ pc = "splice"
    /\ backPeer = "open"
    /\ backSent < MaxBackendBytes
    /\ backIn' = Append(backIn, BackendBytes[backSent + 1])
    /\ backSent' = backSent + 1
    /\ UNCHANGED <<reqVars, pc, backConn, clientConn, message, mr, c2b, b2c, backWritten,
                   clientIn, clientPeer, clientSent, clientRead, backPeer, clientOut,
                   fixVars, mainVars>>

BackendClose ==
    /\ pc = "splice"
    /\ backPeer = "open"
    /\ backPeer' \in {"eof", "gone"}
    /\ UNCHANGED <<reqVars, pc, backConn, clientConn, message, mr, c2b, b2c, backWritten,
                   clientIn, clientPeer, clientSent, clientRead, backIn, backSent, clientOut,
                   fixVars, mainVars>>

Next ==
    \/ Receive
    \/ HandlerNotFound
    \/ HandlerTunnel
    \/ HandlerForward
    \/ ProxyServe
    \/ WsDialFail
    \/ WsDialOk
    \/ WsNotHijacker
    \/ WsHijackErr
    \/ WsHijackOk
    \/ C2BMessage
    \/ C2BBody
    \/ C2BClient
    \/ C2BEnd
    \/ B2CData
    \/ B2CWriteErr
    \/ B2CEnd
    \/ ClientSend
    \/ ClientClose
    \/ BackendSend
    \/ BackendClose

Spec == Init /\ [][Next]_vars

(***************************************************************************)
(* Properties of the dispatcher and the tunnel                             *)
(***************************************************************************)
IsPrefix(a, b) == Len(a) <= Len(b) /\ SubSeq(b, 1, Len(a)) = a

Dispatched == pc \notin {"off", "idle", "handler"}

Registered == req0.name \in DOMAIN domain_backend

CasePairs ==
    {<<"W", "w">>, <<"E", "e">>, <<"B", "b">>, <<"S", "s">>, <<"O", "o">>,
     <<"C", "c">>, <<"K", "k">>, <<"T", "t">>}

\* a and b are equal up to the case of their letters
EqualFold(a, b) ==
    /\ Len(a) = Len(b)
    /\ \A i \in 1..Len(a) :
          a[i] = b[i] \/ <<a[i], b[i]>> \in CasePairs \/ <<b[i], a[i]>> \in CasePairs

\* the lines of the header block of a replayed request: what follows the
\* request line and the Host line, up to the blank line
BlockLines(bytes) ==
    LET lines == Split(bytes, S_nl)
        blank == CHOOSE i \in 1..Len(lines) :
                    lines[i] = <<>> /\ \A j \in 1..(i - 1) : lines[j] # <<>>
    IN  SubSeq(lines, 3, blank - 1)

RECURSIVE ValuesOf(_, _)
ValuesOf(lines, k) ==
    IF lines = <<>> THEN <<>>
    ELSE IF HasPrefix(Head(lines), k \o S_colonsp)
         THEN <<TrimPrefix(Head(lines), k \o S_colonsp)>> \o ValuesOf(Tail(lines), k)
         ELSE ValuesOf(Tail(lines), k)

\* C1: a request whose Host, without its port, is not a registry key gets
\* status 501 and a body containing that hostname, and nothing else happens:
\* no dial, no proxy invoked, forwarding headers untouched.
C1_UnknownHost501 ==
    (Dispatched /\ ~Registered) =>
        /\ w.status = 501
        /\ Contains(w.body, req0.name)
        /\ dial = "none" /\ backConn = "none"
        /\ fwdCalls = 0 /\ wsCalls = 0
        /\ r.Header = req0.header

\* the same property restricted to host names that are not IP literals
UnknownHost501_Names == req0.name # N_v6 => C1_UnknownHost501

\* C2: a request to a registered host is handled by exactly one proxy, the
\* tunnel if and only if its Upgrade value equals "websocket" up to case.
C2_ExactlyOneProxy ==
    (Dispatched /\ Registered) =>
        /\ fwdCalls + wsCalls = 1
        /\ wsCalls = 1 <=> EqualFold(HeaderGet(req0.header, K_Upgrade), S_websocket)

C2_Witness ==
    /\ Registered
    /\ wsCalls = 1
    /\ HeaderGet(req0.header, K_Upgrade) = V_WebSocket
    /\ pc = "dial"

\* C3: a request that reaches a backend carries X-Forwarded-Proto: https alone
\* and the inbound X-Forwarded-For values followed by the client's IP.
C3_ForwardedHeaders ==
    LET want == Append(HeaderVals(req0.header, K_XFF), req0.ip)
    IN  /\ (pc = "done" /\ fwdCalls = 1 /\ w.status = 200) =>
              /\ outReq.Header[K_XFP] = <<S_httpsVal>>
              /\ outReq.Header[K_XFF] = want
        /\ backWritten # <<>> =>
              /\ ValuesOf(BlockLines(backWritten), K_XFP) = <<S_httpsVal>>
              /\ ValuesOf(BlockLines(backWritten), K_XFF) = want

\* the same property restricted to clients with an IPv4 address
ForwardedHeaders_IPv4 == req0.ip = IP_v4 => C3_ForwardedHeaders

\* C4: when the dial fails the client gets a 500 through the response writer,
\* its connection is never hijacked, nothing is replayed and no copy starts.
C4_DialFailNoHijack ==
    dial = "failed" =>
        /\ w.status = 500
        /\ hj = "none" /\ clientConn = "http"
        /\ message = <<>> /\ backWritten = <<>>
        /\ c2b = "none" /\ b2c = "none"
        /\ backConn = "none"

C4_Witness == dial = "failed" /\ pc = "done" /\ w.status = 500

\* C7: the upstream URL is the resolved target, one "/", and the request URI
\* without its leading slashes; the target is the configured one without its
\* trailing slashes; a request for /foo?x=1 reaches the backend as /foo?x=1.
C7_JoinExactlyOneSlash ==
    (Dispatched /\ Registered) =>
        LET t == domain_backend[req0.name]
            uri == req0.uri
            rest == SubSeq(u, Len(t) + 1, Len(u))
        IN  /\ HasPrefix(u, t)
            /\ ~HasSuffix(t, S_slash)
            /\ \E k \in 0..Len(LastDeclared(req0.name)) :
                  HasSuffix(t \o Slashes(k), LastDeclared(req0.name))
            /\ HasPrefix(rest, S_slash)
            /\ ~HasPrefix(rest, S_slash \o S_slash)
            /\ \E k \in 0..Len(uri) : uri = Slashes(k) \o Tail(rest)
            /\ (uri = U_foo /\ pc = "done" /\ fwdCalls = 1 /\ w.status = 200) =>
                  UrlRequestURI(outReq.URL) = U_foo
            /\ (uri = U_foo /\ backWritten # <<>>) =>
                  HasPrefix(backWritten, M_GET \o S_sp \o U_foo \o S_sp)

C7_Witness ==
    /\ pc = "done" /\ fwdCalls = 1 /\ w.status = 200
    /\ req0.name = D_b
    /\ req0.uri = U_dslash
    /\ LastDeclared(D_b) = T_h7ss

\* C8 as stated: the session ends as soon as either copy direction completes.
C8_EitherDirectionEnds ==
    (hj = "ok" /\ (c2b = "done" \/ b2c = "done")) =>
        pc = "done" /\ clientConn = "closed" /\ backConn = "closed"

\* C8 (amended): the session ends when the backend->client copy completes:
\* the handler has returned exactly when that copy is done, both sockets are
\* then closed, and until then both stay open whatever the other direction did.
C8_BackendToClientEnds ==
    hj = "ok" =>
        /\ b2c = "done" <=> pc = "done"
        /\ b2c = "done" => clientConn = "closed" /\ backConn = "closed"
        /\ b2c = "running" => clientConn = "hijacked" /\ backConn = "open"

C8_Witness ==
    /\ hj = "ok" /\ pc = "done" /\ b2c = "done"
    /\ c2b = "running"
    /\ clientConn = "closed" /\ backConn = "closed"

\* lines are the lines of a request block for req: the request line, the
\* Host line, one line per header value (hdr), and the blank line that ends it
BlockOf(lines, hdr, req) ==
    /\ lines[1] = req.Method \o S_sp \o req.URI \o S_sp \o req.Proto
    /\ lines[2] = S_hostHdr \o req.Host
    /\ lines[Len(lines) - 1] = <<>> /\ lines[Len(lines)] = <<>>
    /\ \A k \in DOMAIN req.Header : ValuesOf(hdr, k) = req.Header[k]
    /\ \A i \in 1..Len(hdr) :
          \E k \in DOMAIN req.Header : HasPrefix(hdr[i], k \o S_colonsp)

IsBlock(lines, req) == BlockOf(lines, SubSeq(lines, 3, Len(lines) - 2), req)

\* C9: what is written to the backend is, in order, the request block
\* (request line, Host line, one line per header value, blank line), the
\* request body, and the bytes read from the hijacked client connection.
C9_BackendByteOrder ==
    hj = "ok" =>
        /\ IsPrefix(backWritten, message \o r.Body \o clientRead)
        /\ (c2b = "running" /\ mr = 3) => backWritten = message \o r.Body \o clientRead
        /\ IsPrefix(clientRead, ClientBytes)
        /\ mr = 2 => (backWritten = message /\ IsBlock(Split(backWritten, S_nl), r))

C9_Witness ==
    /\ hj = "ok"
    /\ r.Body # <<>> /\ clientRead # <<>>
    /\ Len(r.Header[K_XFF]) > 1
    /\ backWritten = message \o r.Body \o clientRead

\* C10: when the hijack is unavailable or fails after a successful dial, the
\* client gets a 500, nothing is written to the backend, no copy starts and
\* the backend connection is closed; every dialed connection is closed once
\* the handler has returned.
C10_HijackFailClosesBackend ==
    /\ hj \in {"unsupported", "error"} =>
          /\ dial = "ok"
          /\ w.status = 500
          /\ backWritten = <<>>
          /\ c2b = "none" /\ b2c = "none"
          /\ clientConn = "http"
          /\ backConn = "closed"
    /\ (pc = "done" /\ dial = "ok") => backConn = "closed"

C10_Witness == hj = "error" /\ pc = "done" /\ backConn = "closed"

====
